---- MODULE Spec2Model ----
(***************************************************************************)
(* Verification model of the vector-search-service ingestion core:         *)
(*   - JobManager and the batch endpoint with its background task          *)
(*     (src/src/core/job_manager.py, src/src/api/documents.py)             *)
(*   - DocumentProcessor.chunk_document (src/src/core/document_processor.py)*)
(*   - ingest_document and PostgreSQLVectorStore.add_documents             *)
(*     (src/src/api/documents.py, src/src/core/vector_store.py)            *)
(*   - similarity_search over fulltext_search (src/src/api/search.py)      *)
(* The specifications share the variables: Spec and SpecLive (jobs),       *)
(* SpecJobManager and SpecCleanup (direct JobManager calls), SpecChunk     *)
(* and SpecDocumentId (DocumentProcessor), SpecIngest (single-document     *)
(* ingestion) and SpecSearch.                                              *)
(* Record constructors list their fields in the order TLC keeps them in,   *)
(* so that values shared between TLC's workers are never rearranged.       *)
(***************************************************************************)
EXTENDS Integers, Sequences, FiniteSets, TLC

VARIABLES
    \* ---- JobManager / batch endpoint ----
    jobs,            \* JobManager.jobs: job id -> BatchJob
    running_tasks,   \* JobManager._running_tasks (its key set)
    next_job_id,     \* stands for uuid.uuid4(): the next unused job id
    tasks,           \* background process_batch_job coroutines, by job id
    reply,           \* the answer the last step gave to a client, if it gave one
    now,             \* datetime.utcnow()
    \* ---- chunk_document ----
    ck,              \* the running DocumentProcessor call
    \* ---- ingest_document / vector store ----
    collections,     \* table "collections": the set of names
    rows,            \* table "documents": sequence of committed rows
    ing              \* ingest_document requests in flight, by request id

jobVars == <<jobs, running_tasks, next_job_id, tasks, reply, now>>
chunkVars == <<ck>>
ingestVars == <<collections, rows, ing>>
vars == <<jobs, running_tasks, next_job_id, tasks, reply, now, ck, collections, rows, ing>>

(***************************************************************************)
(* Bounds                                                                  *)
(***************************************************************************)
\* jobs that may be created in one run
MaxJobs == 1
\* settings.max_batch_documents (MAX_BATCH_DOCUMENTS), scaled down from 50
max_batch_documents == 2
\* the clock stops advancing here
MaxTime == 2

\* Optional[...] = None for timestamps; real timestamps are >= 1
None == 0

\* the ids uuid4 hands out, in order; an id not handed out yet is an unknown
\* job to every JobManager call
JobIds == 1..MaxJobs
\* request sizes: up to one more than the maximum accepted
DocCounts == 0..(max_batch_documents + 1)
CollectionNames == {"docs", "nonexistent"}

JobStatusValues == {"queued", "processing", "completed", "failed", "cancelled"}
Terminal == {"completed", "failed", "cancelled"}

(***************************************************************************)
(* progress_percentage is a float (processed / total) * 100; it is kept as *)
(* the reduced fraction num/den.                                           *)
(***************************************************************************)
RECURSIVE GCD(_, _)
GCD(a, b) ==
    IF b = 0 THEN a ELSE GCD(b, a % b)

Frac(n, d) ==
    LET g == GCD(n, d) IN
    IF n = 0 THEN [num |-> 0, den |-> 1] ELSE [num |-> n \div g, den |-> d \div g]

(***************************************************************************)
(* JobManager                                                              *)
(***************************************************************************)
JobResult(document_index, status) ==
    [document_index |-> document_index, status |-> status]

BatchJob(collection_name, created_at, total_documents) ==
    [status |-> "queued",
     collection_name |-> collection_name,
     created_at |-> created_at,
     total_documents |-> total_documents,
     started_at |-> None,
     completed_at |-> None,
     processed_documents |-> 0,
     successful_documents |-> 0,
     failed_documents |-> 0,
     results |-> <<>>,
     error_message |-> "None",
     progress_percentage |-> Frac(0, 1)]

\* create_batch_job registering the job with no documents
create_batch_job_mutant(js, id, n_documents, collection_name, t) ==
    [k \in (DOMAIN js) \cup {id} |->
        IF k = id THEN BatchJob(collection_name, t, 0) ELSE js[k]]

create_batch_job(js, id, n_documents, collection_name, t) ==
    [k \in (DOMAIN js) \cup {id} |->
        IF k = id THEN BatchJob(collection_name, t, n_documents) ELSE js[k]]

\* cancel_job_ret with a cancelled job taken for a cancellable one
cancel_job_ret_mutant(js, id) ==
    /\ id \in DOMAIN js
    /\ js[id].status \notin {"completed", "failed"}

\* TRUE exactly when cancel_job returns True
cancel_job_ret(js, id) ==
    /\ id \in DOMAIN js
    /\ js[id].status \notin {"completed", "failed", "cancelled"}

cancel_job(js, id, t) ==
    IF cancel_job_ret(js, id)
    THEN [js EXCEPT ![id] = [js[id] EXCEPT !.status = "cancelled", !.completed_at = t]]
    ELSE js

update_job_status(js, id, status, t) ==
    IF id \notin DOMAIN js THEN js
    ELSE IF status \notin JobStatusValues THEN js
    ELSE LET job == js[id] IN
         [js EXCEPT ![id] =
            [job EXCEPT
                !.status = status,
                !.started_at =
                    IF status = "processing" /\ job.started_at = None THEN t ELSE job.started_at,
                !.completed_at =
                    IF ~(status = "processing" /\ job.started_at = None)
                       /\ status \in {"completed", "failed", "cancelled"}
                    THEN t ELSE job.completed_at]]

\* update_job_progress writing the counters and leaving the percentage for
\* later
update_job_progress_mutant(js, id, processed, total) ==
    IF id \notin DOMAIN js THEN js
    ELSE [js EXCEPT ![id] =
            [js[id] EXCEPT !.processed_documents = processed,
                           !.total_documents = total]]

\* update_job_progress with the percentage taken without dividing by total
update_job_progress_undivided(js, id, processed, total) ==
    IF id \notin DOMAIN js THEN js
    ELSE [js EXCEPT ![id] =
            [js[id] EXCEPT !.processed_documents = processed,
                           !.total_documents = total,
                           !.progress_percentage = Frac(processed * 100, 1)]]

update_job_progress(js, id, processed, total) ==
    IF id \notin DOMAIN js THEN js
    ELSE LET job == js[id] IN
         [js EXCEPT ![id] =
            [job EXCEPT
                !.processed_documents = processed,
                !.total_documents = total,
                !.progress_percentage =
                    IF total > 0 THEN Frac(processed * 100, total)
                    ELSE job.progress_percentage]]

\* results[k] is what the caller passed: a dict (kind "dict") supports .get,
\* a DocumentIngestResponse (kind "model") does not: result.get raises
\* AttributeError at the first such element, after the earlier ones were added.
DictPrefix(results) ==
    IF \E k \in 1..Len(results) : results[k].kind # "dict"
    THEN (CHOOSE k \in 1..Len(results) :
            /\ results[k].kind # "dict"
            /\ \A m \in 1..(k - 1) : results[m].kind = "dict") - 1
    ELSE Len(results)

\* [raised, jobs]: whether complete_job raised, and the registry it leaves
complete_job(js, id, results, errors, t) ==
    IF id \notin DOMAIN js THEN [jobs |-> js, raised |-> FALSE]
    ELSE LET job == js[id]
             k == DictPrefix(results)
             okResults == [m \in 1..k |-> JobResult(m - 1, "completed")]
             errResults == [m \in 1..Len(errors) |->
                               JobResult(errors[m].document_index, "failed")]
             afterOk == [job EXCEPT
                            !.results = job.results \o okResults,
                            !.successful_documents = job.successful_documents + k]
         IN IF k < Len(results)
            THEN [jobs |-> [js EXCEPT ![id] = afterOk], raised |-> TRUE]
            ELSE [jobs |-> [js EXCEPT ![id] =
                     [afterOk EXCEPT
                        !.results = afterOk.results \o errResults,
                        !.failed_documents = job.failed_documents + Len(errors),
                        !.status = "completed",
                        !.completed_at = t,
                        !.processed_documents = Len(results) + Len(errors),
                        !.progress_percentage = Frac(100, 1)]],
                  raised |-> FALSE]

fail_job(js, id, error_message, t) ==
    IF id \notin DOMAIN js THEN js
    ELSE [js EXCEPT ![id] =
            [js[id] EXCEPT
                !.status = "failed",
                !.error_message = error_message,
                !.completed_at = t]]

(***************************************************************************)
(* The batch endpoint and its background task (api/documents.py).          *)
(* A request's documents are represented by their number; whether the      *)
(* ingest_document call for one of them returns or raises depends on the   *)
(* document and on the storage, and is chosen when the call returns.       *)
(* Coroutines interleave only at storage awaits: the JobManager methods    *)
(* contain no suspension point, so each action runs from one storage await *)
(* to the next.                                                            *)
(***************************************************************************)
\* reply holds the answer of the step just taken and NoReply after a step
\* that answers nobody
\* code: the HTTP status; job: the job id the answer names; n_documents: the
\* document count the answer carries
NoReply ==
    [n_documents |-> 0, job |-> 0, op |-> "none", code |-> 0]

Reply(op, code, job, n_documents) ==
    [n_documents |-> n_documents, job |-> job, op |-> op, code |-> code]

\* background_tasks.add_task(process_batch_job, job_id, documents, ...);
\* i counts the ingest_document calls the task has started: documents[i-1] is
\* the one being ingested
NewTask(n_documents, collection_name) ==
    [collection_name |-> collection_name,
     results |-> <<>>,
     n_documents |-> n_documents,
     errors |-> <<>>,
     pc |-> "scheduled",
     i |-> 0]

\* BatchTooLarge with the comparison off by one
BatchTooLarge_mutant(n_documents) ==
    n_documents > max_batch_documents + 1

\* the size check of batch_ingest_documents: TRUE when the batch is refused
BatchTooLarge(n_documents) ==
    n_documents > max_batch_documents

\* batch_ingest_documents, whole.  Its awaits (get_collection, and in sync
\* mode the ingest_document calls) read and write the storage only, which
\* this specification holds fixed; the JobManager is touched in the last,
\* suspension-free segment (create_batch_job, add_task), so the handler is
\* one step here.
batch_ingest_documents(n, mode, coll) ==
    /\ mode = "async" => next_job_id <= MaxJobs
    /\ IF BatchTooLarge(n)
       THEN /\ reply' = Reply("batch", 400, 0, n)
            /\ UNCHANGED <<jobs, next_job_id, tasks>>
       ELSE IF coll \notin collections
       THEN /\ reply' = Reply("batch", 404, 0, 0)
            /\ UNCHANGED <<jobs, next_job_id, tasks>>
       ELSE IF mode = "async"
       THEN /\ jobs' = create_batch_job(jobs, next_job_id, n, coll, now)
            /\ tasks' = [k \in (DOMAIN tasks) \cup {next_job_id} |->
                            IF k = next_job_id THEN NewTask(n, coll) ELSE tasks[k]]
            /\ next_job_id' = next_job_id + 1
            /\ reply' = Reply("batch", 200, next_job_id, n)
       ELSE \* sync: every document is passed to ingest_document, then
            \* BatchIngestResponse(job_id=None, status_endpoint=None) is built:
            \* both are required str fields, the constructor raises and the
            \* outer handler answers 500
            /\ reply' = Reply("batch", 500, 0, 0)
            /\ UNCHANGED <<jobs, next_job_id, tasks>>
    /\ UNCHANGED <<running_tasks, now>>
    /\ UNCHANGED <<ck, collections, rows, ing>>

\* ErrorEntry losing the index of the document
ErrorEntry_mutant(index) ==
    [document_index |-> 0]

\* error_info of process_batch_job for documents[index]
ErrorEntry(index) ==
    [document_index |-> index]

\* the tail of process_batch_job: complete_job, and fail_job when it raises
FinishJob(js, j, results, errors, t) ==
    LET c == complete_job(js, j, results, errors, t) IN
    IF c.raised THEN fail_job(c.jobs, j, "error", t) ELSE c.jobs

\* process_batch_job from its start to the first ingest_document await
TaskStart(j) ==
    /\ j \in DOMAIN tasks
    /\ tasks[j].pc = "scheduled"
    /\ LET started == update_job_status(jobs, j, "processing", now) IN
       IF tasks[j].n_documents = 0
       THEN /\ jobs' = FinishJob(started, j, <<>>, <<>>, now)
            /\ tasks' = [tasks EXCEPT ![j].pc = "done"]
            /\ running_tasks' = running_tasks \ {j}
       ELSE /\ jobs' = started
            /\ tasks' = [tasks EXCEPT ![j].pc = "ingesting", ![j].i = 1]
            /\ running_tasks' = running_tasks
    /\ reply' = NoReply
    /\ UNCHANGED <<next_job_id, now>>
    /\ UNCHANGED <<ck, collections, rows, ing>>

\* process_batch_job from the return of ingest_document for documents[i-1]
\* to the next ingest_document await, or to the end of the coroutine
TaskIngestReturn(j, ok) ==
    /\ j \in DOMAIN tasks
    /\ tasks[j].pc = "ingesting"
    /\ LET task == tasks[j]
           index == task.i - 1
           results == IF ok THEN Append(task.results, [kind |-> "model", index |-> index])
                      ELSE task.results
           errors == IF ok THEN task.errors
                     ELSE Append(task.errors, ErrorEntry(index))
           progressed == IF ok
                         THEN update_job_progress(jobs, j, index + 1, task.n_documents)
                         ELSE jobs
       IN IF task.i < task.n_documents
          THEN /\ jobs' = progressed
               /\ tasks' = [tasks EXCEPT ![j] =
                              [task EXCEPT !.i = task.i + 1,
                                           !.results = results, !.errors = errors]]
               /\ running_tasks' = running_tasks
          ELSE /\ jobs' = FinishJob(progressed, j, results, errors, now)
               /\ tasks' = [tasks EXCEPT ![j] =
                              [task EXCEPT !.pc = "done", !.results = results,
                                           !.errors = errors]]
               /\ running_tasks' = running_tasks \ {j}
    /\ reply' = NoReply
    /\ UNCHANGED <<next_job_id, now>>
    /\ UNCHANGED <<ck, collections, rows, ing>>

\* DELETE /jobs/{job_id}: JobManager.cancel_job; task.cancel() reaches only a
\* task registered in _running_tasks
CancelJob(j) ==
    /\ jobs' = cancel_job(jobs, j, now)
    /\ reply' = Reply("cancel", IF cancel_job_ret(jobs, j) THEN 200 ELSE 400, j, 0)
    /\ running_tasks' = IF cancel_job_ret(jobs, j) THEN running_tasks \ {j} ELSE running_tasks
    /\ tasks' = IF cancel_job_ret(jobs, j) /\ j \in running_tasks /\ j \in DOMAIN tasks
                THEN [tasks EXCEPT ![j].pc = "cancelled"]
                ELSE tasks
    /\ UNCHANGED <<next_job_id, now>>
    /\ UNCHANGED <<ck, collections, rows, ing>>

Tick ==
    /\ now < MaxTime
    /\ now' = now + 1
    /\ reply' = NoReply
    /\ UNCHANGED <<jobs, running_tasks, next_job_id, tasks>>
    /\ UNCHANGED <<ck, collections, rows, ing>>

ChunkIdle ==
    ck = [pc |-> "idle"]

IngestIdle ==
    /\ collections = {"docs"}
    /\ rows = <<>>
    /\ ing = <<>>

Init ==
    /\ jobs = <<>>
    /\ running_tasks = {}
    /\ next_job_id = 1
    /\ tasks = <<>>
    /\ reply = NoReply
    /\ now = 1
    /\ ChunkIdle
    /\ IngestIdle

Next ==
    \/ \E n \in DocCounts, mode \in {"async", "sync"}, coll \in CollectionNames :
          batch_ingest_documents(n, mode, coll)
    \/ \E j \in JobIds : TaskStart(j)
    \/ \E j \in JobIds, ok \in BOOLEAN : TaskIngestReturn(j, ok)
    \/ \E j \in JobIds : CancelJob(j)
    \/ Tick

Spec == Init /\ [][Next]_vars

(***************************************************************************)
(* The JobManager called directly (core/job_manager.py): one caller makes  *)
(* calls of its methods with arguments of its choice, one call per step.   *)
(* One job is registered; calls made before that name an unknown job.      *)
(***************************************************************************)
\* the jobs this caller registers
DirectJobIds == {1}
\* processed and total arguments of update_job_progress
ProgressArgs == {0, 1, 2}

DirectCreateBatchJob(n, coll) ==
    /\ next_job_id \in DirectJobIds
    /\ jobs' = create_batch_job(jobs, next_job_id, n, coll, now)
    /\ next_job_id' = next_job_id + 1
    /\ reply' = NoReply
    /\ UNCHANGED <<running_tasks, tasks, now>>
    /\ UNCHANGED <<ck, collections, rows, ing>>

DirectUpdateJobStatus(j, status) ==
    /\ jobs' = update_job_status(jobs, j, status, now)
    /\ reply' = NoReply
    /\ UNCHANGED <<running_tasks, next_job_id, tasks, now>>
    /\ UNCHANGED <<ck, collections, rows, ing>>

DirectUpdateJobProgress(j, processed, total) ==
    /\ jobs' = update_job_progress(jobs, j, processed, total)
    /\ reply' = NoReply
    /\ UNCHANGED <<running_tasks, next_job_id, tasks, now>>
    /\ UNCHANGED <<ck, collections, rows, ing>>

NextJobManager ==
    \/ \E n \in DocCounts, coll \in CollectionNames : DirectCreateBatchJob(n, coll)
    \/ \E j \in DirectJobIds, status \in JobStatusValues \cup {"unknown"} :
          DirectUpdateJobStatus(j, status)
    \/ \E j \in DirectJobIds, p \in ProgressArgs, t \in ProgressArgs :
          DirectUpdateJobProgress(j, p, t)
    \/ \E j \in DirectJobIds : CancelJob(j)
    \/ Tick

SpecJobManager == Init /\ [][NextJobManager]_vars

(***************************************************************************)
(* The batch endpoint and its background task again, with the scheduling   *)
(* the event loop gives: a scheduled task is started, and a running        *)
(* ingest_document call takes its next step.  That step is a return, an    *)
(* exception, or the entry into a chunk_document loop that never returns   *)
(* (document_processor.py:71-105); the loop is synchronous code, so while  *)
(* it runs no other coroutine or handler of the process runs.  The clock   *)
(* is left out.                                                            *)
(***************************************************************************)
\* a task is inside a chunk_document call that does not return
EventLoopHeld ==
    \E j \in DOMAIN tasks : tasks[j].pc = "hung"

\* the ingest_document call of process_batch_job enters such a loop
TaskIngestHangs(j) ==
    /\ j \in DOMAIN tasks
    /\ tasks[j].pc = "ingesting"
    /\ tasks' = [tasks EXCEPT ![j].pc = "hung"]
    /\ reply' = NoReply
    /\ UNCHANGED <<jobs, running_tasks, next_job_id, now>>
    /\ UNCHANGED <<ck, collections, rows, ing>>

LiveBatch ==
    /\ ~EventLoopHeld
    /\ \E n \in DocCounts, mode \in {"async", "sync"}, coll \in CollectionNames :
          batch_ingest_documents(n, mode, coll)

LiveTaskStart(j) ==
    ~EventLoopHeld /\ TaskStart(j)

LiveTaskStep(j) ==
    /\ ~EventLoopHeld
    /\ \/ \E ok \in BOOLEAN : TaskIngestReturn(j, ok)
       \/ TaskIngestHangs(j)

LiveCancelJob(j) ==
    ~EventLoopHeld /\ CancelJob(j)

NextLive ==
    \/ LiveBatch
    \/ \E j \in JobIds : LiveTaskStart(j)
    \/ \E j \in JobIds : LiveTaskStep(j)
    \/ \E j \in JobIds : LiveCancelJob(j)

SpecLive ==
    /\ Init
    /\ [][NextLive]_vars
    /\ \A j \in JobIds : WF_vars(LiveTaskStart(j))
    /\ \A j \in JobIds : WF_vars(LiveTaskStep(j))

(***************************************************************************)
(* cleanup_old_jobs, called directly on a registry of up to two jobs.      *)
(* Times are in hours.                                                     *)
(***************************************************************************)
CleanupJobIds == {1, 2}
\* max_age_hours
MaxAgeArgs == {0, 1}

\* cleanup_old_jobs removing every old job, whatever its status
cleanup_old_jobs_mutant(js, max_age_hours, t) ==
    LET cutoff_time == t - max_age_hours
        jobs_to_remove == {id \in DOMAIN js : js[id].created_at < cutoff_time}
    IN [id \in (DOMAIN js) \ jobs_to_remove |-> js[id]]

cleanup_old_jobs(js, max_age_hours, t) ==
    LET cutoff_time == t - max_age_hours
        jobs_to_remove ==
            {id \in DOMAIN js :
                /\ js[id].created_at < cutoff_time
                /\ js[id].status \in {"completed", "failed", "cancelled"}}
    IN [id \in (DOMAIN js) \ jobs_to_remove |-> js[id]]

CleanupCreateBatchJob ==
    /\ next_job_id \in CleanupJobIds
    /\ jobs' = create_batch_job(jobs, next_job_id, 1, "docs", now)
    /\ next_job_id' = next_job_id + 1
    /\ reply' = NoReply
    /\ UNCHANGED <<running_tasks, tasks, now>>
    /\ UNCHANGED <<ck, collections, rows, ing>>

CleanupUpdateJobStatus(j, status) ==
    /\ jobs' = update_job_status(jobs, j, status, now)
    /\ reply' = NoReply
    /\ UNCHANGED <<running_tasks, next_job_id, tasks, now>>
    /\ UNCHANGED <<ck, collections, rows, ing>>

DirectCleanupOldJobs(max_age_hours) ==
    /\ jobs' = cleanup_old_jobs(jobs, max_age_hours, now)
    /\ reply' = Reply("cleanup", 0, 0, 0)
    /\ UNCHANGED <<running_tasks, next_job_id, tasks, now>>
    /\ UNCHANGED <<ck, collections, rows, ing>>

NextCleanup ==
    \/ CleanupCreateBatchJob
    \/ \E j \in CleanupJobIds, status \in JobStatusValues : CleanupUpdateJobStatus(j, status)
    \/ \E m \in MaxAgeArgs : DirectCleanupOldJobs(m)
    \/ Tick

SpecCleanup == Init /\ [][NextCleanup]_vars

(***************************************************************************)
(* DocumentProcessor.chunk_document (core/document_processor.py).          *)
(* A text is a sequence of characters of three classes: "a" (a word        *)
(* character), " " (whitespace: what str.strip and str.split remove) and   *)
(* "." (punctuation).  Python offsets are 0-based: text[i] is content[i+1].*)
(***************************************************************************)
\* longest content
MaxLen == 5
\* largest chunk_size argument
MaxChunkSize == 4
\* largest overlap argument
MaxOverlap == 2

\* settings.document_chunk_size, settings.document_chunk_overlap
default_chunk_size == 1000
default_chunk_overlap == 200
\* how far back _find_word_boundary looks
boundary_window == 100

Chars == {"a", " ", "."}
Contents == UNION {[1..n -> Chars] : n \in 0..MaxLen}
\* 0 stands for every falsy argument (None, 0): "x or default" takes the default
ChunkSizeArgs == 0..MaxChunkSize
OverlapArgs == 0..MaxOverlap

Min(a, b) ==
    IF a < b THEN a ELSE b

Max(a, b) ==
    IF a > b THEN a ELSE b

\* one bound of a Python slice s[a:b]: negative counts from the end, then
\* clamped into 0..len
SliceBound(k, len) ==
    IF k < 0 THEN Max(k + len, 0) ELSE Min(k, len)

\* s[a:b]
Slice(s, a, b) ==
    LET lo == SliceBound(a, Len(s))
        hi == SliceBound(b, Len(s))
    IN IF lo < hi THEN SubSeq(s, lo + 1, hi) ELSE <<>>

\* str.strip()
Strip(s) ==
    LET keep == {k \in 1..Len(s) : s[k] # " "} IN
    IF keep = {} THEN <<>>
    ELSE SubSeq(s, CHOOSE k \in keep : \A m \in keep : k <= m,
                   CHOOSE k \in keep : \A m \in keep : k >= m)

\* _find_word_boundary: i runs from position down to max(0, position-100)+1
find_word_boundary(text, position) ==
    LET hits == {i \in (Max(0, position - boundary_window) + 1)..position :
                    text[i + 1] \in {" ", "."}}
    IN IF hits = {} THEN position
       ELSE (CHOOSE i \in hits : \A m \in hits : i >= m) + 1

\* the overlap chunk_document works with: "overlap or default", then clamped
effective_overlap(chunk_size, overlap) ==
    Min(IF overlap = 0 THEN default_chunk_overlap ELSE overlap, chunk_size \div 2)

effective_chunk_size(chunk_size) ==
    IF chunk_size = 0 THEN default_chunk_size ELSE chunk_size

DocumentChunk(content, chunk_index, start_char, end_char, is_last) ==
    [chunk_size |-> Len(content),
     content |-> content,
     chunk_index |-> chunk_index,
     start_char |-> start_char,
     end_char |-> end_char,
     is_first_chunk |-> (chunk_index = 0),
     is_last_chunk |-> is_last]

\* chunk_iteration keeping the chunks that are empty after trimming
chunk_iteration_mutant(content, chunk_size, overlap, start, chunks) ==
    LET end0 == Min(start + chunk_size, Len(content))
        end == IF end0 < Len(content) THEN find_word_boundary(content, end0) ELSE end0
    IN [start |-> end - overlap,
        chunks |-> Append(chunks, DocumentChunk(Strip(Slice(content, start, end)),
                                                Len(chunks), start, end,
                                                end >= Len(content))),
        end |-> end,
        brk |-> end - overlap >= end]

\* one round of the while loop, entered with start < len(content):
\* the end it computes, the chunk list and start it leaves, whether it breaks
chunk_iteration(content, chunk_size, overlap, start, chunks) ==
    LET end0 == Min(start + chunk_size, Len(content))
        end == IF end0 < Len(content) THEN find_word_boundary(content, end0) ELSE end0
        chunk_content == Strip(Slice(content, start, end))
        next_start == end - overlap
    IN [start |-> next_start,
        chunks |-> IF chunk_content # <<>>
                   THEN Append(chunks, DocumentChunk(chunk_content, Len(chunks), start, end,
                                                     end >= Len(content)))
                   ELSE chunks,
        end |-> end,
        brk |-> next_start >= end]

\* chunk_document from its call to the first loop test
ChunkEnter ==
    /\ ck.pc = "call"
    /\ IF ck.content = <<>> \/ Strip(ck.content) = <<>>
       THEN ck' = [ck EXCEPT !.pc = "done"]
       ELSE ck' = [ck EXCEPT !.pc = "loop",
                             !.chunk_size = effective_chunk_size(ck.arg_chunk_size),
                             !.overlap = effective_overlap(
                                            effective_chunk_size(ck.arg_chunk_size),
                                            ck.arg_overlap)]
    /\ UNCHANGED <<jobs, running_tasks, next_job_id, tasks, reply, now>>
    /\ UNCHANGED <<collections, rows, ing>>

\* one round of the loop.  The round is a function of start alone (content,
\* chunk_size and overlap are fixed), so a round that leaves the loop at a
\* start it was entered with before repeats for ever, adding a chunk each
\* time round: pc "cycle" stands for that call, which never returns.
ChunkLoop ==
    /\ ck.pc = "loop"
    /\ LET it == chunk_iteration(ck.content, ck.chunk_size, ck.overlap, ck.start, ck.chunks)
           seen == ck.seen \cup {ck.start}
       IN ck' = [ck EXCEPT
                    !.chunks = it.chunks,
                    !.start = it.start,
                    !.end = it.end,
                    !.seen = seen,
                    !.pc = IF it.brk \/ ~(it.start < Len(ck.content)) THEN "done"
                           ELSE IF it.start \in seen THEN "cycle"
                           ELSE "loop"]
    /\ UNCHANGED <<jobs, running_tasks, next_job_id, tasks, reply, now>>
    /\ UNCHANGED <<collections, rows, ing>>

ChunkCall(content, chunk_size, overlap) ==
    [pc |-> "call",
     chunk_size |-> 0,
     overlap |-> 0,
     content |-> content,
     start |-> 0,
     chunks |-> <<>>,
     end |-> 0,
     arg_chunk_size |-> chunk_size,
     arg_overlap |-> overlap,
     seen |-> {}]

JobsIdle ==
    /\ jobs = <<>>
    /\ running_tasks = {}
    /\ next_job_id = 1
    /\ tasks = <<>>
    /\ reply = NoReply
    /\ now = 1

InitChunk ==
    /\ ck \in {ChunkCall(c, s, o) : c \in Contents, s \in ChunkSizeArgs, o \in OverlapArgs}
    /\ JobsIdle
    /\ IngestIdle

NextChunk ==
    \/ ChunkEnter
    \/ ChunkLoop

SpecChunk == InitChunk /\ [][NextChunk]_vars

(***************************************************************************)
(* ingest_document (api/documents.py) over PostgreSQLVectorStore           *)
(* (core/vector_store.py).  A request advances from one storage await to   *)
(* the next in one step; the code between two awaits runs without          *)
(* interleaving on the event loop.  add_documents is also called directly, *)
(* with any number of documents, so that its grouping is exercised.        *)
(***************************************************************************)
\* most documents in one direct add_documents call
MaxDocs == 5
\* settings.batch_commit_size (BATCH_COMMIT_SIZE), scaled down from 10
batch_commit_size == 2
\* settings.max_document_size_mb * 1_000_000 characters, scaled down
max_document_size == 4

RequestIds == {"r1", "r2"}
Oversized == [k \in 1..(max_document_size + 1) |-> "a"]
IngestContents == {<<>>, <<" ">>, <<"a">>, <<"a", " ", " ", "a">>, Oversized}
\* request.metadata is a dict once pydantic has accepted the request
MetadataKinds == {"empty", "reserved"}
\* <<>> stands for no document_id given
DocumentIdArgs == {<<>>}
IngestChunkSizes == {1, 2}
IngestOverlaps == {1}
DocCountArgs == 0..MaxDocs

\* validate_document: [ok, detail]
validate_document(content, metadata) ==
    IF content = <<>> \/ Strip(content) = <<>>
    THEN [ok |-> FALSE, detail |-> "Document content cannot be empty"]
    ELSE IF Len(content) > max_document_size
    THEN [ok |-> FALSE, detail |-> "Document content too large"]
    ELSE IF metadata = "not_mapping"
    THEN [ok |-> FALSE, detail |-> "Metadata must be a dictionary"]
    ELSE IF metadata = "reserved"
    THEN [ok |-> FALSE, detail |-> "Metadata key is reserved"]
    ELSE [ok |-> TRUE, detail |-> "None"]

\* content.split(): the words between runs of whitespace
RECURSIVE split(_)
split(s) ==
    IF s = <<>> THEN <<>>
    ELSE IF Head(s) = " " THEN split(Tail(s))
    ELSE LET spaces == {k \in 1..Len(s) : s[k] = " "}
             k == IF spaces = {} THEN Len(s) + 1
                  ELSE CHOOSE i \in spaces : \A m \in spaces : i <= m
         IN <<SubSeq(s, 1, k - 1)>> \o split(SubSeq(s, k, Len(s)))

\* ' '.join(words)
RECURSIVE join(_)
join(words) ==
    IF words = <<>> THEN <<>>
    ELSE IF Len(words) = 1 THEN words[1]
    ELSE words[1] \o <<" ">> \o join(Tail(words))

\* preprocess_content: the text has no newline or control character, so
\* only the whitespace normalisation acts
preprocess_content(content) ==
    join(split(content))

\* generate_document_id.  A text is a sequence of symbols; metadata is a
\* dict, as the set of its <<key, value>> pairs, each value a text.
relevant_keys == <<"title", "source", "author", "type">>

\* f"_{key}:", as one symbol of the text
key_prefix(key) ==
    CASE key = "title" -> "_title:"
      [] key = "source" -> "_source:"
      [] key = "author" -> "_author:"
      [] key = "type" -> "_type:"

\* hash_input after the loop over relevant_keys[k..]
RECURSIVE hash_input_from(_, _, _)
hash_input_from(hash_input, metadata, k) ==
    IF k > Len(relevant_keys) THEN hash_input
    ELSE LET key == relevant_keys[k]
         IN IF \E p \in metadata : p[1] = key
            THEN hash_input_from(
                     hash_input \o <<key_prefix(key)>>
                                \o (CHOOSE p \in metadata : p[1] = key)[2],
                     metadata, k + 1)
            ELSE hash_input_from(hash_input, metadata, k + 1)

hash_input(content, metadata) ==
    hash_input_from(content, metadata, 1)

\* "#" stands for the sha256 prefix, taken as free of collisions
generate_document_id(content, metadata) ==
    <<"#">> \o hash_input(content, metadata)

\* the while loop of chunk_document run to its end: the chunks it returns,
\* or hang when it comes back to a start it has been at
RECURSIVE chunk_loop(_, _, _, _, _, _)
chunk_loop(content, chunk_size, overlap, start, chunks, seen) ==
    IF ~(start < Len(content)) THEN [chunks |-> chunks, hang |-> FALSE]
    ELSE IF start \in seen THEN [chunks |-> <<>>, hang |-> TRUE]
    ELSE LET it == chunk_iteration(content, chunk_size, overlap, start, chunks)
         IN IF it.brk THEN [chunks |-> it.chunks, hang |-> FALSE]
            ELSE chunk_loop(content, chunk_size, overlap, it.start, it.chunks,
                            seen \cup {start})

chunk_document(content, chunk_size, overlap) ==
    IF content = <<>> \/ Strip(content) = <<>> THEN [chunks |-> <<>>, hang |-> FALSE]
    ELSE chunk_loop(content, effective_chunk_size(chunk_size),
                    effective_overlap(effective_chunk_size(chunk_size), overlap),
                    0, <<>>, {})

DocumentIngestRequest(content, metadata, document_id, chunk_size, chunk_overlap) ==
    [chunk_size |-> chunk_size,
     content |-> content,
     metadata |-> metadata,
     document_id |-> document_id,
     chunk_overlap |-> chunk_overlap]

NoRequest ==
    DocumentIngestRequest(<<>>, "empty", <<>>, 0, 0)

\* a request that has not arrived
IdleRequest ==
    [collection_name |-> "None",
     kind |-> "none",
     code |-> 0,
     pc |-> "idle",
     detail |-> "None",
     request |-> NoRequest,
     found |-> "unknown",
     created |-> FALSE,
     documents |-> <<>>,
     batch_start |-> 0,
     pending |-> <<>>,
     built |-> 0,
     commits |-> 0,
     all_results |-> <<>>,
     error |-> "none",
     outcome |-> "none",
     chunks_created |-> 0]

\* rows of the documents table this request committed
RowsBy(r) ==
    SelectSeq(rows, LAMBDA row : row.by = r)

\* an exception leaving a storage call: ingest_document turns it into a 500,
\* a direct caller of add_documents sees it raised
Raise(rec, error, detail) ==
    IF rec.kind = "ingest"
    THEN [rec EXCEPT !.pc = "done", !.error = error, !.outcome = "error",
                     !.code = 500, !.detail = detail, !.pending = <<>>]
    ELSE [rec EXCEPT !.pc = "done", !.error = error, !.outcome = "error",
                     !.pending = <<>>]

\* chunk_ids and chunk_texts handed to add_documents
ChunkRecords(document_id, chunks) ==
    [i \in 1..Len(chunks) |->
        [content |-> chunks[i].content, document_id |-> <<document_id, i - 1>>]]

\* ingest_document from validate_document to the first await of
\* add_documents (documents.py:128-201)
Pipeline(rec) ==
    LET req == rec.request
        v == validate_document(req.content, req.metadata)
        document_id == IF req.document_id # <<>> THEN req.document_id
                       ELSE generate_document_id(req.content, {})
        c == chunk_document(preprocess_content(req.content), req.chunk_size,
                            req.chunk_overlap)
    IN IF ~v.ok
       THEN [rec EXCEPT !.pc = "done", !.outcome = "error", !.error = "validation",
                        !.code = 400, !.detail = v.detail]
       ELSE IF c.hang THEN [rec EXCEPT !.pc = "hung"]
       ELSE IF c.chunks = <<>>
       THEN [rec EXCEPT !.pc = "done", !.outcome = "error", !.error = "no_chunks",
                        !.code = 400,
                        !.detail = "No valid chunks generated from document"]
       ELSE [rec EXCEPT !.pc = "select",
                        !.documents = ChunkRecords(document_id, c.chunks)]

\* a chunk_document call that never returns holds the event loop: nothing
\* else in the process runs again
Hung ==
    \E r \in RequestIds : ing[r].pc = "hung"

\* ingest_document from its entry to the await inside get_collection
ingest_document(r, collection_name, request) ==
    /\ ~Hung
    /\ ing[r].pc = "idle"
    /\ ing' = [ing EXCEPT ![r] = [IdleRequest EXCEPT !.pc = "get_collection",
                                                     !.kind = "ingest",
                                                     !.collection_name = collection_name,
                                                     !.request = request]]
    /\ UNCHANGED <<collections, rows>>
    /\ UNCHANGED <<jobs, running_tasks, next_job_id, tasks, reply, now, ck>>

\* get_collection answers; the handler runs on to its next await
GetCollection(r, db_ok) ==
    /\ ~Hung
    /\ ing[r].pc = "get_collection"
    /\ ing' = [ing EXCEPT ![r] =
                 IF ~db_ok THEN Raise(@, "get_collection", "database error")
                 ELSE IF @.collection_name \in collections
                 THEN Pipeline([@ EXCEPT !.found = "yes"])
                 ELSE [@ EXCEPT !.found = "no", !.pc = "create_collection"]]
    /\ UNCHANGED <<collections, rows>>
    /\ UNCHANGED <<jobs, running_tasks, next_job_id, tasks, reply, now, ck>>

\* what ingest_document answers when create_collection raised
create_collection_failed_mutant(rec) ==
    [rec EXCEPT !.pc = "done", !.error = "create_collection", !.outcome = "error",
                !.code = 404, !.detail = "Collection not found"]

create_collection_failed(rec) ==
    [rec EXCEPT !.pc = "done", !.error = "create_collection", !.outcome = "error",
                !.code = 500, !.detail = "Failed to create collection"]

\* the collections table after create_collection's commit went through
insert_collection_mutant(names, name) ==
    names

insert_collection(names, name) ==
    names \cup {name}

\* create_collection: the INSERT is committed unless the database fails or
\* the name is taken (Collection.name is unique); the refresh after the
\* commit may fail as well.  Then the handler runs on to its next await.
CreateCollection(r, db) ==
    /\ ~Hung
    /\ ing[r].pc = "create_collection"
    /\ IF db = "commit_fails" \/ ing[r].collection_name \in collections
       THEN /\ ing' = [ing EXCEPT ![r] = create_collection_failed(@)]
            /\ UNCHANGED collections
       ELSE /\ collections' = insert_collection(collections, ing[r].collection_name)
            /\ ing' = [ing EXCEPT ![r] =
                         IF db = "refresh_fails"
                         THEN create_collection_failed([@ EXCEPT !.created = TRUE])
                         ELSE Pipeline([@ EXCEPT !.created = TRUE])]
    /\ UNCHANGED rows
    /\ UNCHANGED <<jobs, running_tasks, next_job_id, tasks, reply, now, ck>>

\* a direct call of add_documents with n documents and no document_ids,
\* up to its first await
add_documents(r, collection_name, n) ==
    /\ ~Hung
    /\ ing[r].pc = "idle"
    /\ ing' = [ing EXCEPT ![r] =
                 [IdleRequest EXCEPT
                    !.kind = "store",
                    !.collection_name = collection_name,
                    !.documents = [i \in 1..n |->
                                     [content |-> <<>>, document_id |-> <<"doc", i - 1>>]],
                    !.pc = IF n = 0 THEN "done" ELSE "select",
                    !.outcome = IF n = 0 THEN "ok" ELSE "none"]]
    /\ UNCHANGED <<collections, rows>>
    /\ UNCHANGED <<jobs, running_tasks, next_job_id, tasks, reply, now, ck>>

\* batch_end = min(batch_start + batch_size, total_docs)
batch_end_mutant(batch_start, total_docs) ==
    total_docs

batch_end(batch_start, total_docs) ==
    Min(batch_start + batch_commit_size, total_docs)

\* one group of add_documents from the select of the collection to the
\* commit: the Document objects of the group are built and added to the
\* session
SelectCollection(r, db_ok) ==
    /\ ~Hung
    /\ ing[r].pc = "select"
    /\ ing' = [ing EXCEPT ![r] =
                 IF ~db_ok THEN Raise(@, "select", "database error")
                 ELSE IF @.collection_name \notin collections
                 THEN Raise(@, "select", "Collection not found")
                 ELSE LET group == SubSeq(@.documents, @.batch_start + 1,
                                          batch_end(@.batch_start, Len(@.documents)))
                      IN [@ EXCEPT !.pc = "commit",
                                   !.pending = group,
                                   !.built = @ + Len(group)]]
    /\ UNCHANGED <<collections, rows>>
    /\ UNCHANGED <<jobs, running_tasks, next_job_id, tasks, reply, now, ck>>

\* the documents table after session.commit(): a failed commit is rolled
\* back by get_session_context
session_commit_mutant(table, pending, r, collection_name, db) ==
    table \o [i \in 1..Len(pending) |->
                [content |-> pending[i].content,
                 document_id |-> pending[i].document_id,
                 by |-> r,
                 collection |-> collection_name]]

\* session_commit making only the first row of the group visible
session_commit_partial(table, pending, r, collection_name, db) ==
    IF db = "commit_fails" \/ pending = <<>> THEN table
    ELSE Append(table, [content |-> pending[1].content,
                        document_id |-> pending[1].document_id,
                        by |-> r,
                        collection |-> collection_name])

session_commit(table, pending, r, collection_name, db) ==
    IF db = "commit_fails" THEN table
    ELSE table \o [i \in 1..Len(pending) |->
                     [content |-> pending[i].content,
                      document_id |-> pending[i].document_id,
                      by |-> r,
                      collection |-> collection_name]]

\* add_documents returned all_results to ingest_document, which answers
IngestResponse(rec) ==
    IF rec.kind = "ingest"
    THEN [rec EXCEPT !.pc = "done", !.outcome = "ok", !.code = 200,
                     !.detail = "completed",
                     !.chunks_created = Len(rec.all_results)]
    ELSE [rec EXCEPT !.pc = "done", !.outcome = "ok"]

\* the commit of the group, the refresh of its rows, and the code up to the
\* next group's select or the return
Commit(r, db) ==
    /\ ~Hung
    /\ ing[r].pc = "commit"
    /\ rows' = session_commit(rows, ing[r].pending, r, ing[r].collection_name, db)
    /\ ing' = [ing EXCEPT ![r] =
                 IF db = "commit_fails" THEN Raise(@, "commit", "database error")
                 ELSE IF db = "refresh_fails"
                 THEN Raise([@ EXCEPT !.commits = @ + 1], "refresh", "database error")
                 ELSE LET done == [@ EXCEPT !.commits = @ + 1,
                                            !.all_results = @ \o ing[r].pending,
                                            !.pending = <<>>,
                                            !.batch_start = @ + batch_commit_size]
                      IN IF done.batch_start < Len(done.documents)
                         THEN [done EXCEPT !.pc = "select"]
                         ELSE IngestResponse(done)]
    /\ UNCHANGED collections
    /\ UNCHANGED <<jobs, running_tasks, next_job_id, tasks, reply, now, ck>>

DbOutcomes == {"ok", "commit_fails", "refresh_fails"}

InitIngest ==
    /\ collections = {"docs"}
    /\ rows = <<>>
    /\ ing = [r \in RequestIds |-> IdleRequest]
    /\ JobsIdle
    /\ ChunkIdle

NextIngest ==
    \/ \E r \in RequestIds, c \in CollectionNames, content \in IngestContents,
          m \in MetadataKinds, d \in DocumentIdArgs, s \in IngestChunkSizes,
          o \in IngestOverlaps :
            ingest_document(r, c, DocumentIngestRequest(content, m, d, s, o))
    \/ \E r \in RequestIds, db_ok \in BOOLEAN : GetCollection(r, db_ok)
    \/ \E r \in RequestIds, db \in DbOutcomes : CreateCollection(r, db)
    \/ \E r \in RequestIds, c \in CollectionNames, n \in DocCountArgs :
            add_documents(r, c, n)
    \/ \E r \in RequestIds, db_ok \in BOOLEAN : SelectCollection(r, db_ok)
    \/ \E r \in RequestIds, db \in DbOutcomes : Commit(r, db)

SpecIngest == InitIngest /\ [][NextIngest]_vars

(***************************************************************************)
(* similarity_search (api/search.py) over fulltext_search                  *)
(* (core/vector_store.py).  The handler only reads the storage; it is one  *)
(* step, applied to a storage that earlier ingests have left.              *)
(***************************************************************************)
SearchContents == {<<"a">>, <<"a", "a">>, <<"a", " ", "a", "a">>}
SearchQueries == {<<"a">>, <<"a", "a">>}
\* request.limit
SearchLimits == {1, 2}

\* doc_metadata of a stored chunk and request.metadata_filter: a dict, as
\* the set of its key/value pairs
SearchMetadata == {{}, {<<"lang", "en">>}, {<<"lang", "fr">>}}
MetadataFilters == {{}, {<<"lang", "en">>}}

StoredRow(collection_name, content, metadata) ==
    [content |-> content,
     metadata |-> metadata,
     document_id |-> <<generate_document_id(content, {}), 0>>,
     by |-> "r1",
     collection |-> collection_name]

\* the documents tables looked at: up to two rows, in collections that exist
SearchTables(names) ==
    {<<>>}
    \cup {<<StoredRow(c, x, m)>> :
            c \in names, x \in SearchContents, m \in SearchMetadata}
    \cup {<<StoredRow(c, x, m), StoredRow(d, y, n)>> :
            c \in names, d \in names, x \in SearchContents, y \in SearchContents,
            m \in SearchMetadata, n \in SearchMetadata}

\* content_tsvector @@ plainto_tsquery(query_text): the query is one of the
\* words of the content
Matches(content, query_text) ==
    \E k \in 1..Len(split(content)) : split(content)[k] = query_text

\* the WHERE clause of the query fulltext_search runs: the collection and
\* the text match; metadata_filter is a parameter of the method that the
\* query never mentions
where_clause(row, collection_name, query_text, metadata_filter) ==
    row.collection = collection_name /\ Matches(row.content, query_text)

\* the rows fulltext_search returns: the rows the WHERE clause selects, at
\* most limit of them
fulltext_search(table, collection_name, query_text, limit, metadata_filter) ==
    LET hits == SelectSeq(table, LAMBDA row :
                    where_clause(row, collection_name, query_text, metadata_filter))
    IN SubSeq(hits, 1, Min(limit, Len(hits)))

\* the SimilaritySearchResponse: total_found and the results
SearchResponse(results) ==
    [results |-> results,
     n_documents |-> Len(results),
     job |-> 0,
     op |-> "search",
     code |-> 200]

\* similarity_search, whole: fulltext_search raises ValueError when the
\* collection is missing, and every exception is answered with 500
similarity_search(collection_id, query, limit, metadata_filter, db_ok) ==
    /\ reply' = IF ~db_ok \/ collection_id \notin collections
                THEN Reply("search", 500, 0, 0)
                ELSE SearchResponse(fulltext_search(rows, collection_id, query,
                                                    limit, metadata_filter))
    /\ UNCHANGED <<jobs, running_tasks, next_job_id, tasks, now>>
    /\ UNCHANGED <<ck, collections, rows, ing>>

InitSearch ==
    /\ collections \in SUBSET CollectionNames
    /\ rows \in SearchTables(collections)
    /\ ing = [r \in RequestIds |-> IdleRequest]
    /\ JobsIdle
    /\ ChunkIdle

NextSearch ==
    \E c \in CollectionNames, q \in SearchQueries, l \in SearchLimits,
       f \in MetadataFilters, db_ok \in BOOLEAN :
        similarity_search(c, q, l, f, db_ok)

SpecSearch == InitSearch /\ [][NextSearch]_vars

(***************************************************************************)
(* generate_document_id (core/document_processor.py), applied to two       *)
(* inputs drawn from bounded sets                                          *)
(***************************************************************************)
\* longest content given to generate_document_id
MaxIdLen == 3

\* the symbols of a content: a letter and the text "_title:"
IdChars == {"a", "_title:"}
IdContents == UNION {[1..n -> IdChars] : n \in 0..MaxIdLen}
IdKeys == {"title", "type", "page"}
IdValues == {<<"a">>, <<"a", "a">>}
\* the metadata dicts: at most one value per key
IdMetadata ==
    {m \in SUBSET (IdKeys \X IdValues) :
        \A p \in m, q \in m : p[1] = q[1] => p = q}
IdInputs == [content : IdContents, metadata : IdMetadata]

\* the two calls
GenerateIds ==
    /\ ck.pc = "ids"
    /\ ck' = [ck EXCEPT !.pc = "ids_done",
                        !.id_first = generate_document_id(ck.first.content,
                                                          ck.first.metadata),
                        !.id_second = generate_document_id(ck.second.content,
                                                           ck.second.metadata)]
    /\ UNCHANGED <<jobs, running_tasks, next_job_id, tasks, reply, now>>
    /\ UNCHANGED <<collections, rows, ing>>

InitDocumentId ==
    /\ ck \in [pc : {"ids"}, first : IdInputs, second : IdInputs,
                id_first : {<<>>}, id_second : {<<>>}]
    /\ JobsIdle
    /\ IngestIdle

NextDocumentId == GenerateIds

SpecDocumentId == InitDocumentId /\ [][NextDocumentId]_vars

(***************************************************************************)
(* Claims about the job manager and the batch endpoint (under Spec)        *)
(***************************************************************************)

\* C1: terminal job states are absorbing: once a job is completed, failed or
\* cancelled, no later step changes its status.
C1_TerminalAbsorbing ==
    [][\A j \in JobIds :
          (j \in DOMAIN jobs /\ jobs[j].status \in Terminal /\ j \in DOMAIN jobs')
              => jobs'[j].status = jobs[j].status]_vars

\* C2: once cancel_job has set a job to cancelled, process_batch_job starts
\* no further ingest_document call for that job.
C2_CancelStopsIngestion ==
    [][\A j \in JobIds :
          (j \in DOMAIN jobs /\ j \in DOMAIN tasks /\ jobs[j].status = "cancelled")
              => tasks'[j].i = tasks[j].i]_vars

\* C3: a cancel_job(j) call answers true exactly when j is a known job that is
\* queued or processing, and then the job is cancelled with completed_at
\* recorded; otherwise it answers false and no field of any job changes.
C3_CancelJobContract ==
    [][\A j \in JobIds :
          (reply'.op = "cancel" /\ reply'.job = j)
              => IF j \in DOMAIN jobs /\ jobs[j].status \in {"queued", "processing"}
                 THEN /\ reply'.code = 200
                      /\ jobs'[j].status = "cancelled"
                      /\ jobs'[j].completed_at = now
                 ELSE /\ reply'.code = 400
                      /\ jobs' = jobs]_vars

\* C3 witness: cancel_job returned true for a job whose task is inside an
\* ingest_document call, and the job is now cancelled and stamped.
C3_Witness ==
    /\ reply.op = "cancel"
    /\ reply.code = 200
    /\ reply.job \in DOMAIN jobs
    /\ tasks[reply.job].pc = "ingesting"
    /\ jobs[reply.job].status = "cancelled"
    /\ jobs[reply.job].completed_at = now
    /\ jobs[reply.job].started_at # None

\* C10: a batch request with more than max_batch_documents documents is
\* answered 400 at once: no job is registered, no task is scheduled and no
\* document is ingested.
C10_OversizedBatchRejected ==
    [][\A n \in DocCounts, mode \in {"async", "sync"}, coll \in CollectionNames :
          (n > max_batch_documents /\ batch_ingest_documents(n, mode, coll))
              => /\ reply'.op = "batch"
                 /\ reply'.code = 400
                 /\ jobs' = jobs
                 /\ tasks' = tasks
                 /\ next_job_id' = next_job_id]_vars

\* C10 witness: an oversized batch has just been refused while a job of an
\* earlier, accepted batch exists.
C10_Witness ==
    /\ reply.op = "batch"
    /\ reply.code = 400
    /\ reply.n_documents > max_batch_documents
    /\ DOMAIN jobs # {}

(***************************************************************************)
(* Claims about chunk_document (under SpecChunk)                           *)
(***************************************************************************)

\* C4: for non-empty content, chunk_size > 0 and overlap >= 0 the loop of
\* chunk_document never comes back to a start offset it has been at: the
\* call terminates.
C4_ChunkDocumentTerminates ==
    (ck.content # <<>> /\ ck.arg_chunk_size > 0 /\ ck.arg_overlap >= 0)
        => ck.pc # "cycle"

(***************************************************************************)
(* Claims about ingest_document and add_documents (under SpecIngest)       *)
(***************************************************************************)

\* the rows add_documents writes for documents[lo+1 .. hi] of request r
RowsOf(r, lo, hi) ==
    [i \in 1..(hi - lo) |->
        [content |-> ing[r].documents[lo + i].content,
         document_id |-> ing[r].documents[lo + i].document_id,
         by |-> r,
         collection |-> ing[r].collection_name]]

\* C5: add_documents writes the n documents in consecutive groups of
\* batch_size in index order, one commit per group; the records of a group
\* are not built before the group before it is committed; a successful call
\* has made ceil(n / batch_size) commits and returns n records.
C5_BatchedPersistenceOrder ==
    \A r \in RequestIds :
        LET rec == ing[r]
            n == Len(rec.documents)
            persisted == Min(rec.commits * batch_commit_size, n)
        IN /\ RowsBy(r) = RowsOf(r, 0, persisted)
           /\ rec.built <= Min((rec.commits + 1) * batch_commit_size, n)
           /\ rec.pending # <<>> =>
                 /\ rec.pending = SubSeq(rec.documents, persisted + 1,
                                         Min(persisted + batch_commit_size, n))
                 /\ rec.built = persisted + Len(rec.pending)
           /\ rec.outcome = "ok" =>
                 /\ rec.commits = (n + batch_commit_size - 1) \div batch_commit_size
                 /\ Len(rec.all_results) = n
                 /\ rec.all_results = rec.documents
                 /\ rec.kind = "ingest" => rec.chunks_created = n

C5_Witness ==
    \E r \in RequestIds :
        /\ ing[r].kind = "store"
        /\ ing[r].outcome = "ok"
        /\ Len(ing[r].documents) > batch_commit_size
        /\ Len(ing[r].documents) % batch_commit_size # 0
        /\ ing[r].commits >= 2
        /\ Len(RowsBy(r)) = Len(ing[r].documents)

\* C6: when the commit of group k fails in add_documents, the groups
\* 0..k-1 stay persisted, no record of group k or of a later group is
\* persisted, and an ingest request ends with a 500, never with a success.
C6_PartialPersistenceOnFailure ==
    \A r \in RequestIds :
        ing[r].error = "commit" =>
            /\ ing[r].commits * batch_commit_size < Len(ing[r].documents)
            /\ RowsBy(r) = RowsOf(r, 0, ing[r].commits * batch_commit_size)
            /\ ing[r].outcome = "error"
            /\ ing[r].kind = "ingest" => ing[r].code = 500

C6_Witness ==
    \E r \in RequestIds, q \in RequestIds :
        /\ ing[r].kind = "store"
        /\ ing[r].error = "commit"
        /\ ing[r].commits >= 1
        /\ Len(RowsBy(r)) = ing[r].commits * batch_commit_size
        /\ ing[q].kind = "ingest"
        /\ ing[q].error = "commit"
        /\ ing[q].code = 500

\* C7: when validate_document rejects the document, ingest_document answers
\* 400 and storage is as it was before the request: the request has
\* persisted no chunk and has created no collection.
C7_ValidationFailureNoSideEffects ==
    \A r \in RequestIds :
        ing[r].error = "validation" =>
            /\ ing[r].code = 400
            /\ RowsBy(r) = <<>>
            /\ ~ing[r].created

C11_FireAndForgetHandoff ==
    [][\A n \in DocCounts, coll \in CollectionNames :
          (batch_ingest_documents(n, "async", coll) /\ reply'.code = 200) =>
              LET id == reply'.job IN
              /\ id \notin DOMAIN jobs
              /\ DOMAIN jobs' = DOMAIN jobs \cup {id}
              /\ \A k \in DOMAIN jobs : jobs'[k] = jobs[k]
              /\ jobs'[id].status = "queued"
              /\ jobs'[id].total_documents = n
              /\ jobs'[id].processed_documents = 0
              /\ jobs'[id].started_at = None
              /\ jobs'[id].results = <<>>
              /\ reply'.n_documents = n
              /\ DOMAIN tasks' = DOMAIN tasks \cup {id}
              /\ tasks'[id].pc = "scheduled"
              /\ tasks'[id].i = 0
              /\ tasks'[id].n_documents = n]_vars

C11_Witness ==
    /\ reply.op = "batch"
    /\ reply.code = 200
    /\ reply.n_documents = max_batch_documents
    /\ reply.job \in DOMAIN jobs
    /\ jobs[reply.job].status = "queued"
    /\ jobs[reply.job].total_documents = max_batch_documents
    /\ tasks[reply.job].pc = "scheduled"

\* the ingest_document calls of task j that have returned or raised
Attempted(j) ==
    IF tasks[j].pc = "done" THEN tasks[j].n_documents
    ELSE IF tasks[j].pc = "ingesting" THEN tasks[j].i - 1
    ELSE 0

\* C12: process_batch_job passes every document of the job to
\* ingest_document exactly once, in list order; a failure on document i is
\* recorded as an error entry with index i and the documents after it are
\* still attempted.
C12_PerDocumentFailureIsolation ==
    \A j \in DOMAIN tasks :
        LET task == tasks[j]
            okIdx == {task.results[k].index : k \in 1..Len(task.results)}
            errIdx == {task.errors[k].document_index : k \in 1..Len(task.errors)}
        IN /\ task.i <= task.n_documents
           /\ task.pc = "ingesting" => task.i >= 1
           /\ task.pc = "done" => task.i = task.n_documents
           /\ Len(task.results) + Len(task.errors) = Attempted(j)
           /\ okIdx \cup errIdx = 0..(Attempted(j) - 1)
           /\ okIdx \cap errIdx = {}
           /\ \A k \in 1..(Len(task.results) - 1) :
                 task.results[k].index < task.results[k + 1].index
           /\ \A k \in 1..(Len(task.errors) - 1) :
                 task.errors[k].document_index < task.errors[k + 1].document_index

C12_Witness ==
    \E j \in DOMAIN tasks :
        /\ tasks[j].pc = "done"
        /\ tasks[j].n_documents = max_batch_documents
        /\ tasks[j].errors # <<>>
        /\ tasks[j].errors[1].document_index = 0
        /\ tasks[j].results # <<>>
        /\ tasks[j].results[Len(tasks[j].results)].index = max_batch_documents - 1

\* C13: complete_job(job_id, results, errors) on a known job appends one
\* JobResult per element of results (completed) and one per element of
\* errors (failed), raises successful_documents by len(results) and
\* failed_documents by len(errors), sets progress_percentage to 100 and
\* status to completed, and records completed_at.  The call looked at is
\* the one process_batch_job makes when its loop is over.
C13_CompleteJobContract ==
    [][\A j \in JobIds :
          (j \in DOMAIN tasks /\ tasks[j].pc # "done" /\ tasks'[j].pc = "done") =>
              /\ jobs'[j].status = "completed"
              /\ jobs'[j].completed_at = now
              /\ jobs'[j].progress_percentage = Frac(100, 1)
              /\ Len(jobs'[j].results) =
                    Len(jobs[j].results) + Len(tasks'[j].results) + Len(tasks'[j].errors)
              /\ jobs'[j].successful_documents =
                    jobs[j].successful_documents + Len(tasks'[j].results)
              /\ jobs'[j].failed_documents =
                    jobs[j].failed_documents + Len(tasks'[j].errors)]_vars

(***************************************************************************)
(* Claims about the JobManager methods called directly (SpecJobManager)    *)
(***************************************************************************)

\* C14: after update_job_progress(job_id, p, t) on a known job,
\* processed_documents = p, total_documents = t and progress_percentage is
\* p/t*100 when t > 0 and 0 when t = 0, whatever the progress was before.
C14_ProgressLastWriteWins ==
    [][\A j \in DirectJobIds, p \in ProgressArgs, t \in ProgressArgs :
          (DirectUpdateJobProgress(j, p, t) /\ j \in DOMAIN jobs) =>
              /\ jobs'[j].processed_documents = p
              /\ jobs'[j].total_documents = t
              /\ jobs'[j].progress_percentage =
                    IF t > 0 THEN Frac(p * 100, t) ELSE Frac(0, 1)]_vars

(***************************************************************************)
(* Claims about the job registry as other coroutines see it (under Spec)   *)
(***************************************************************************)

\* C15: the JobManager methods contain no suspension point, so every state
\* another coroutine can observe has each call's field group written as a
\* whole: a completed job has completed_at, progress 100 and its counters
\* and results in step; a failed job has completed_at and its message; a
\* cancelled job has completed_at; a processing job has started_at; and the
\* percentage always belongs to the processed and total counters.
C15_AtomicFieldGroups ==
    \A j \in DOMAIN jobs :
        LET job == jobs[j] IN
        /\ job.status = "completed" =>
              /\ job.completed_at # None
              /\ job.progress_percentage = Frac(100, 1)
              /\ job.processed_documents = Len(job.results)
              /\ job.successful_documents + job.failed_documents = Len(job.results)
        /\ job.status = "failed" =>
              /\ job.completed_at # None
              /\ job.error_message # "None"
        /\ job.status = "cancelled" => job.completed_at # None
        /\ job.status = "processing" => job.started_at # None
        /\ (job.status # "completed" /\ job.total_documents > 0) =>
              job.progress_percentage =
                  Frac(job.processed_documents * 100, job.total_documents)

C15_Witness ==
    \E j \in DOMAIN jobs :
        /\ tasks[j].pc = "ingesting"
        /\ jobs[j].status = "cancelled"
        /\ jobs[j].completed_at # None
        /\ jobs[j].processed_documents >= 1
        /\ jobs[j].processed_documents < jobs[j].total_documents
        /\ jobs[j].progress_percentage =
              Frac(jobs[j].processed_documents * 100, jobs[j].total_documents)

(***************************************************************************)
(* Further claims about ingest_document and add_documents (SpecIngest)     *)
(***************************************************************************)

\* C16: at every point of the ingestion of a document with n chunks, the
\* chunk records of it that other requests can read are exactly the first
\* min(j * batch_size, n) chunks in index order for some j >= 0: the rows of
\* a group that is built but not committed are not among them.
C16_OnlyWholeGroupsVisible ==
    \A r \in RequestIds :
        LET n == Len(ing[r].documents) IN
        /\ \E j \in 0..n : RowsBy(r) = RowsOf(r, 0, Min(j * batch_commit_size, n))
        /\ ing[r].pc = "commit" =>
              /\ ing[r].pending # <<>>
              /\ \A k \in 1..Len(ing[r].pending) :
                    \A m \in 1..Len(rows) :
                        rows[m].by = r =>
                            rows[m].document_id # ing[r].pending[k].document_id

C16_Witness ==
    \E r \in RequestIds, q \in RequestIds :
        /\ r # q
        /\ ing[r].pc = "commit"
        /\ ing[r].commits = 1
        /\ Len(ing[r].documents) > batch_commit_size
        /\ Len(RowsBy(r)) = batch_commit_size
        /\ ing[r].pending # <<>>
        /\ ing[q].pc = "commit"
        /\ RowsBy(q) = <<>>

(***************************************************************************)
(* Further claims about chunk_document (under SpecChunk)                   *)
(***************************************************************************)

\* C17: in the list chunk_document returns the chunk_index values are
\* 0, 1, ..., n-1 in list order, start_char does not decrease from a chunk
\* to the next, and no chunk is empty after trimming.
C17_ChunkListOrdered ==
    ck.pc = "done" =>
        \A k \in 1..Len(ck.chunks) :
            /\ ck.chunks[k].chunk_index = k - 1
            /\ ck.chunks[k].content # <<>>
            /\ Strip(ck.chunks[k].content) = ck.chunks[k].content
            /\ k < Len(ck.chunks) =>
                  ck.chunks[k].start_char <= ck.chunks[k + 1].start_char

C17_Witness ==
    /\ ck.pc = "done"
    /\ Len(ck.chunks) = 1
    /\ ck.chunks[1].chunk_index = 0
    /\ ck.chunks[1].start_char = 0
    /\ ck.chunks[1].content # <<>>
    /\ Len(ck.content) > Len(ck.chunks[1].content)

\* C18: for every content and chunk_size > 0, every position of the content
\* that holds a non-whitespace character lies inside the span
\* [start_char, end_char) of at least one chunk of the returned list.
C18_ChunkCoverage ==
    (ck.pc = "done" /\ ck.arg_chunk_size > 0) =>
        \A p \in 0..(Len(ck.content) - 1) :
            ck.content[p + 1] # " " =>
                \E k \in 1..Len(ck.chunks) :
                    /\ ck.chunks[k].start_char <= p
                    /\ p < ck.chunks[k].end_char

(***************************************************************************)
(* Claims about blank documents (under SpecIngest)                         *)
(***************************************************************************)

\* C19: for content that is empty or only whitespace chunk_document returns
\* an empty list and validate_document returns (False, reason); the
\* ingest_document request whose handler got as far as the validation is
\* answered with the 400 of the validation, and it has persisted nothing:
\* no chunk and no collection.
C19_BlankContentRejected ==
    \A r \in RequestIds :
        LET req == ing[r].request IN
        (ing[r].kind = "ingest" /\ Strip(req.content) = <<>>) =>
            /\ chunk_document(req.content, req.chunk_size, req.chunk_overlap)
                  = [chunks |-> <<>>, hang |-> FALSE]
            /\ ~validate_document(req.content, req.metadata).ok
            /\ (ing[r].pc = "done"
                  /\ ing[r].error \notin {"get_collection", "create_collection"}) =>
                  /\ ing[r].code = 400
                  /\ ing[r].error = "validation"
                  /\ ing[r].detail = "Document content cannot be empty"
            /\ RowsBy(r) = <<>>
            /\ ~ing[r].created

(***************************************************************************)
(* Claims about similarity_search (under SpecSearch)                       *)
(***************************************************************************)

\* C20: a search against a collection that does not exist is answered with
\* a client error (4xx): neither with an empty result list nor with a
\* server error (5xx).
C20_MissingCollectionIsClientError ==
    [][\A c \in CollectionNames, q \in SearchQueries, l \in SearchLimits,
          f \in MetadataFilters :
          (similarity_search(c, q, l, f, TRUE) /\ c \notin collections) =>
              /\ reply'.code >= 400
              /\ reply'.code <= 499]_vars

\* C21: when a search request carries a metadata_filter, every returned
\* result belongs to the requested collection and its metadata holds every
\* key/value pair of the filter.
C21_MetadataFilterHonoured ==
    [][\A c \in CollectionNames, q \in SearchQueries, l \in SearchLimits,
          f \in MetadataFilters :
          (f # {} /\ similarity_search(c, q, l, f, TRUE) /\ reply'.code = 200) =>
              \A k \in 1..Len(reply'.results) :
                  /\ reply'.results[k].collection = c
                  /\ f \subseteq reply'.results[k].metadata]_vars

\* the values of title, source, author and type in a metadata dict
RelevantValues(metadata) ==
    {p \in metadata : \E k \in 1..Len(relevant_keys) : p[1] = relevant_keys[k]}

\* C22: generate_document_id depends only on the content and on the values
\* of title, source, author and type: two inputs get the same id exactly
\* when they have the same content and the same values for those keys.
C22_DocumentIdDependsOnRelevantInput ==
    ck.pc = "ids_done" =>
        ((ck.id_first = ck.id_second)
            <=> (/\ ck.first.content = ck.second.content
                 /\ RelevantValues(ck.first.metadata)
                        = RelevantValues(ck.second.metadata)))

\* C23: cleanup_old_jobs(max_age) removes exactly the jobs that are terminal
\* and were created before now - max_age; queued and processing jobs stay,
\* and every job that stays is unchanged.
C23_CleanupRemovesOldTerminalJobs ==
    [][\A m \in MaxAgeArgs :
          DirectCleanupOldJobs(m) =>
              /\ DOMAIN jobs' \subseteq DOMAIN jobs
              /\ \A j \in DOMAIN jobs :
                    (j \notin DOMAIN jobs')
                        <=> (/\ jobs[j].status \in Terminal
                             /\ jobs[j].created_at < now - m)
              /\ \A j \in DOMAIN jobs' : jobs'[j] = jobs[j]]_vars

\* C23 witness: a cleanup has just removed one job and kept a processing job
\* that is as old.
C23_Witness ==
    /\ reply.op = "cleanup"
    /\ next_job_id = 3
    /\ DOMAIN jobs = {2}
    /\ jobs[2].status = "processing"
    /\ jobs[2].created_at < now

\* C24: when process_batch_job has attempted all documents of a job that was
\* not cancelled, the job ends completed, with one JobResult per document
\* and successful_documents + failed_documents = total_documents.
C24_AttemptedJobEndsCompleted ==
    [][\A j \in JobIds :
          (/\ j \in DOMAIN tasks
           /\ tasks[j].pc # "done"
           /\ tasks'[j].pc = "done"
           /\ jobs[j].status # "cancelled") =>
              /\ jobs'[j].status = "completed"
              /\ Len(jobs'[j].results) = jobs'[j].total_documents
              /\ jobs'[j].successful_documents + jobs'[j].failed_documents
                    = jobs'[j].total_documents]_vars

\* C25: a sync batch request that passes the size and collection checks is
\* answered, once its documents have been attempted, with a response whose
\* status is completed: not with an error.
C25_SyncBatchAnswersCompleted ==
    [][\A n \in DocCounts, coll \in CollectionNames :
          (/\ batch_ingest_documents(n, "sync", coll)
           /\ ~BatchTooLarge(n)
           /\ coll \in collections) =>
              /\ reply'.op = "batch"
              /\ reply'.code = 200]_vars

\* C26: no two records that ingest_document calls have persisted in one
\* collection carry the same chunk id {document_id}_chunk_{index}:
\* ingesting the same document a second time does not add a second copy of
\* its chunk records.
C26_ChunkIdsUnique ==
    \A i \in 1..Len(rows), k \in 1..Len(rows) :
        (/\ i # k
         /\ rows[i].collection = rows[k].collection
         /\ ing[rows[i].by].kind = "ingest"
         /\ ing[rows[k].by].kind = "ingest")
            => rows[i].document_id # rows[k].document_id

\* C27: when two ingest_document requests have both read the same collection
\* as missing and one of them has created it, the create_collection call of
\* the other, on a storage that works, does not make its request fail: the
\* collection stays created once and the request goes on to its document.
C27_ConcurrentCreationBothSucceed ==
    [][\A r \in RequestIds, o \in RequestIds :
          (/\ r # o
           /\ ing[r].kind = "ingest" /\ ing[o].kind = "ingest"
           /\ ing[r].found = "no" /\ ing[o].found = "no"
           /\ ing[r].collection_name = ing[o].collection_name
           /\ ing[o].created
           /\ CreateCollection(r, "ok")) =>
              /\ collections' = collections
              /\ ing'[r].error # "create_collection"
              /\ ing'[r].code < 500]_vars

\* C28: every job registered by an async batch request eventually reaches
\* a terminal status (completed, failed or cancelled), the background task
\* being scheduled and every ingest_document call taking its next step.
C28_EveryJobEventuallyTerminal ==
    \A j \in JobIds :
        (j \in DOMAIN jobs) ~> (j \in DOMAIN jobs /\ jobs[j].status \in Terminal)

\* C29: in every reachable state of every job driven by the batch endpoint,
\* 0 <= processed_documents <= total_documents, 0 <= progress_percentage
\* <= 100, and successful_documents + failed_documents is the number of
\* entries in results and never exceeds total_documents.
C29_JobCountersConsistent ==
    \A j \in DOMAIN jobs :
        LET job == jobs[j] IN
        /\ 0 <= job.processed_documents
        /\ job.processed_documents <= job.total_documents
        /\ job.progress_percentage.den > 0
        /\ 0 <= job.progress_percentage.num
        /\ job.progress_percentage.num <= 100 * job.progress_percentage.den
        /\ job.successful_documents + job.failed_documents = Len(job.results)
        /\ Len(job.results) <= job.total_documents

\* C29 witness: a job half-way through its batch, cancelled meanwhile, with
\* a progress strictly between 0 and 100.
C29_Witness ==
    \E j \in DOMAIN jobs :
        /\ jobs[j].status = "cancelled"
        /\ tasks[j].pc = "ingesting"
        /\ jobs[j].processed_documents > 0
        /\ jobs[j].processed_documents < jobs[j].total_documents
        /\ jobs[j].progress_percentage.num > 0
        /\ jobs[j].progress_percentage.num < 100 * jobs[j].progress_percentage.den

\* C30: every chunk returned by chunk_document satisfies
\* 0 <= start_char < end_char <= len(content) and
\* end_char - start_char <= chunk_size, and its content is the trimmed
\* content[start_char:end_char].
C30_ChunkBounds ==
    ck.pc = "done" =>
        \A k \in 1..Len(ck.chunks) :
            LET chunk == ck.chunks[k] IN
            /\ 0 <= chunk.start_char
            /\ chunk.start_char < chunk.end_char
            /\ chunk.end_char <= Len(ck.content)
            /\ chunk.end_char - chunk.start_char <= ck.chunk_size
            /\ chunk.content = Strip(Slice(ck.content, chunk.start_char, chunk.end_char))

====
